---------------------------- MODULE Spec2Model ----------------------------
(***************************************************************************)
(* A model of the RSA + Serpent hybrid file-encryption tool.               *)
(*                                                                         *)
(* Representation.                                                         *)
(*   - A byte is a number in 0..255; a buffer (std::vector<uint8_t>, a     *)
(*     file's contents) is a sequence of bytes.                            *)
(*   - A uint32_t is the set of the positions (0..31) of its 1 bits, so    *)
(*     that every operation keeps the 32-bit width: a left shift drops the *)
(*     bits that leave the word, a rotation wraps them around.             *)
(*   - A block or a subkey (uint32_t[4]) is a 4-tuple of words; C index j  *)
(*     is tuple index j+1.                                                 *)
(*   - An mpz_class is a natural number.  The numbers of the RSA part are  *)
(*     kept small: one bit of the model stands for BitScale bits of the    *)
(*     program (256 -> 256 \div BitScale, 1024 -> 1024 \div BitScale), and *)
(*     the exponent 2^16+1 becomes 2^(16 \div ExpScale)+1.                 *)
(*   - A session key that has to be wider than that (up to MaxKeyBytes     *)
(*     bytes, for setKey alone) is kept as its limbs of LimbBytes bytes,   *)
(*     least significant first.                                            *)
(***************************************************************************)
EXTENDS Integers, Sequences, FiniteSets, TLC

(***************************************************************************)
(* Bounds of the model.                                                    *)
(***************************************************************************)
\* longest plaintext file, in bytes
MaxPlainLen == 17
\* number of byte patterns the plaintext files are filled with
NumPatterns == 2
\* the generator's draws are its RngSpread lowest and RngSpread highest outputs
RngSpread == 2
\* program bits per model bit, for RSA sizes
BitScale == 64
\* program bits per model bit, for the fixed public exponent
ExpScale == 8
\* largest modulus size rsa_keygen is called with in the RSA harness
MaxKeygenBits == 8
\* number of input blocks of the block harness
NumBlocks == 40
\* menu choices the user of main.cpp makes
MaxMenuRounds == 3
\* encryptFile calls on one object between which the input file is rewritten
MaxEncryptions == 2
\* bytes per limb of an mpz_class that is kept as its limbs
LimbBytes == 2
\* longest session key handed to setKey in the key harness, in bytes
MaxKeyBytes == 34
\* number of byte patterns the session keys of the key harness are made of
NumKeyPatterns == 4
\* calls made on the cipher object of the object harness
MaxCalls == 3

(***************************************************************************)
(* Bytes and 32-bit words.                                                 *)
(***************************************************************************)
Byte == 0..255
BitPos == 0..31

\* bit i of the natural number n
BitOf(n, i) == (n \div (2^i)) % 2 = 1

\* (uint32_t)b0 | b1 << 8 | b2 << 16 | b3 << 24
WordOfBytes(b0, b1, b2, b3) ==
    {i \in BitPos : BitOf(<<b0, b1, b2, b3>>[(i \div 8) + 1], i % 8)}

\* (uint8_t)((w >> 8k) & 0xFF)
ByteOfWord(w, k) ==
    LET v(i) == IF (8 * k + i) \in w THEN 2^i ELSE 0
    IN  v(0) + v(1) + v(2) + v(3) + v(4) + v(5) + v(6) + v(7)

\* an int in 0..255 converted to uint32_t
WordOfNat(n) == {i \in 0..7 : BitOf(n, i)}

XOR(a, b) == (a \ b) \cup (b \ a)

ROL(x, n) == {(i + n) % 32 : i \in x}

ROR(x, n) == {(i + 32 - n) % 32 : i \in x}

\* x << n on a uint32_t
SHL(x, n) == {i + n : i \in {j \in x : j + n < 32}}

(***************************************************************************)
(* Serpent::transpose and Serpent::inverseTranspose.                       *)
(***************************************************************************)
transpose(data) ==
    LET output(dw) == {db \in BitPos : LET i == 4 * db + dw
                                       IN  (i % 32) \in data[(i \div 32) + 1]}
    IN  << output(0), output(1), output(2), output(3) >>

\* mutant of inverseTranspose: the bit map of transpose once more
inverseTransposeForward(data) ==
    LET output(dw) == {db \in BitPos : LET i == 4 * db + dw
                                       IN  (i % 32) \in data[(i \div 32) + 1]}
    IN  << output(0), output(1), output(2), output(3) >>

inverseTranspose(data) ==
    LET output(dw) == {db \in BitPos : LET i == 32 * dw + db
                                       IN  (i \div 4) \in data[(i % 4) + 1]}
    IN  << output(0), output(1), output(2), output(3) >>

(***************************************************************************)
(* S-boxes (table look-up on the bitsliced state).                         *)
(***************************************************************************)
SBOX ==
    << << 3, 8, 15, 1, 10, 6, 5, 11, 14, 13, 4, 2, 7, 0, 9, 12 >>,
       << 15, 12, 2, 7, 9, 0, 5, 10, 1, 11, 14, 8, 13, 4, 6, 3 >>,
       << 8, 6, 7, 9, 3, 12, 10, 15, 13, 1, 14, 4, 0, 11, 5, 2 >>,
       << 0, 15, 11, 8, 12, 9, 6, 3, 13, 1, 2, 4, 10, 7, 5, 14 >>,
       << 1, 15, 8, 3, 12, 0, 11, 6, 2, 5, 4, 10, 9, 14, 7, 13 >>,
       << 15, 5, 2, 11, 4, 10, 9, 12, 0, 3, 14, 8, 13, 6, 7, 1 >>,
       << 7, 2, 12, 5, 8, 4, 6, 11, 14, 9, 1, 15, 13, 3, 10, 0 >>,
       << 1, 13, 15, 0, 14, 8, 2, 11, 7, 4, 12, 10, 9, 3, 5, 6 >> >>

INV_SBOX ==
    << << 13, 3, 11, 0, 10, 6, 5, 12, 1, 14, 4, 7, 15, 9, 8, 2 >>,
       << 5, 8, 2, 15, 13, 6, 14, 3, 11, 4, 7, 9, 1, 12, 10, 0 >>,
       << 12, 9, 15, 4, 11, 14, 1, 2, 0, 3, 6, 13, 5, 8, 10, 7 >>,
       << 0, 9, 10, 7, 11, 14, 6, 13, 3, 5, 12, 2, 4, 8, 15, 1 >>,
       << 5, 0, 8, 3, 10, 9, 7, 14, 2, 12, 11, 6, 4, 15, 13, 1 >>,
       << 8, 15, 2, 9, 4, 1, 13, 14, 11, 6, 5, 3, 7, 12, 10, 0 >>,
       << 15, 10, 1, 13, 5, 3, 6, 0, 4, 9, 14, 7, 2, 12, 8, 11 >>,
       << 3, 0, 6, 13, 9, 14, 15, 8, 5, 12, 11, 7, 10, 1, 4, 2 >> >>

\* for one table row: the inputs (0..15) whose output has bit k set, k = 0..3
OutputBits(box) ==
    LET ones(k) == {input \in 0..15 : BitOf(box[input + 1], k)}
    IN  << ones(0), ones(1), ones(2), ones(3) >>

\* The loop "for i in 0..31: input = bits i of X[0..3]; output = box[input];
\* Y[k] gets bit i when output has bit k" sets bit i of Y[k] exactly when the
\* input at position i is one of OutputBits(box)[k].  Where(v) is the set of
\* the positions whose input is v = b0 + 2*b1 + 4*b2 + 8*b3.
SubstituteWith(table, round, X) ==
    LET rows == OutputBits(table[(round % 8) + 1])
        n1 == BitPos \ X[1]
        n2 == BitPos \ X[2]
        n3 == BitPos \ X[3]
        n4 == BitPos \ X[4]
        lo == << n1 \cap n2, X[1] \cap n2, n1 \cap X[2], X[1] \cap X[2] >>
        hi == << n3 \cap n4, X[3] \cap n4, n3 \cap X[4], X[3] \cap X[4] >>
        Where(v) == lo[(v % 4) + 1] \cap hi[(v \div 4) + 1]
        Y(k) == UNION {Where(v) : v \in rows[k + 1]}
    IN  << Y(0), Y(1), Y(2), Y(3) >>

applySBox(round, X) == SubstituteWith(SBOX, round, X)

\* mutant of applyInverseSBox: the inverse table of the next S-box
applyInverseSBoxNext(round, X) == SubstituteWith(INV_SBOX, round + 1, X)

applyInverseSBox(round, X) == SubstituteWith(INV_SBOX, round, X)

(***************************************************************************)
(* Linear transformation and its inverse.                                  *)
(***************************************************************************)
linearTransform(X) ==
    LET a0 == ROL(X[1], 13)
        a2 == ROL(X[3], 3)
        a1 == XOR(XOR(X[2], a0), a2)
        a3 == XOR(XOR(X[4], a2), SHL(a0, 3))
        b1 == ROL(a1, 1)
        b3 == ROL(a3, 7)
        b0 == XOR(XOR(a0, b1), b3)
        b2 == XOR(XOR(a2, b3), SHL(b1, 7))
    IN  << ROL(b0, 5), b1, ROL(b2, 22), b3 >>

\* mutant of inverseLinearTransform: rotations where the code shifts
inverseLinearTransformRotating(X) ==
    LET a2 == ROR(X[3], 22)
        a0 == ROR(X[1], 5)
        b2 == XOR(XOR(a2, X[4]), ROL(X[2], 7))
        b0 == XOR(XOR(a0, X[2]), X[4])
        b3 == ROR(X[4], 7)
        b1 == ROR(X[2], 1)
        c3 == XOR(XOR(b3, b2), ROL(b0, 3))
        c1 == XOR(XOR(b1, b0), b2)
    IN  << ROR(b0, 13), c1, ROR(b2, 3), c3 >>

inverseLinearTransform(X) ==
    LET a2 == ROR(X[3], 22)
        a0 == ROR(X[1], 5)
        b2 == XOR(XOR(a2, X[4]), SHL(X[2], 7))
        b0 == XOR(XOR(a0, X[2]), X[4])
        b3 == ROR(X[4], 7)
        b1 == ROR(X[2], 1)
        c3 == XOR(XOR(b3, b2), SHL(b0, 3))
        c1 == XOR(XOR(b1, b0), b2)
    IN  << ROR(b0, 13), c1, ROR(b2, 3), c3 >>

(***************************************************************************)
(* Serpent::keySchedule: 140 prekeys, 33 subkeys.                          *)
(***************************************************************************)
\* 0x9e3779b9
PHI == WordOfBytes(185, 121, 55, 158)

\* w[0..7] from the 32 key bytes, little-endian (sequence index i+1 is w[i])
KeyWords(key) ==
    LET w(i) == WordOfBytes(key[4 * i + 1], key[4 * i + 2], key[4 * i + 3], key[4 * i + 4])
    IN  << w(0), w(1), w(2), w(3), w(4), w(5), w(6), w(7) >>

\* w[i] for i = Len(w) >= 8, from w[0..i-1]
NextPrekey(w) ==
    LET i == Len(w)
        temp == XOR(XOR(XOR(XOR(XOR(w[i - 8 + 1], w[i - 5 + 1]), w[i - 3 + 1]),
                            w[i - 1 + 1]), PHI), WordOfNat(i - 8))
    IN  ROL(temp, 11)

RECURSIVE Prekeys(_, _)
\* for (i = Len(w); i < n; i++) w[i] = ...: the iterations are run as two
\* halves of the index range, one after the other, to keep the evaluation shallow
Prekeys(w, n) ==
    IF Len(w) >= n THEN w
    ELSE IF Len(w) + 1 = n THEN Append(w, NextPrekey(w))
    ELSE Prekeys(Prekeys(w, (Len(w) + n) \div 2), n)

\* mutant of SubkeySBoxIndex: the S-boxes taken in rising order
SubkeySBoxIndexRising(i) == (3 + i) % 8

\* (8 + 3 - (i % 8)) % 8
SubkeySBoxIndex(i) == (8 + 3 - (i % 8)) % 8

\* subkeys[i] for i = Len(ks), given the prekeys w
NextSubkey(w, ks) ==
    LET i == Len(ks)
        k_in == << w[4 * i + 8 + 1], w[4 * i + 9 + 1], w[4 * i + 10 + 1], w[4 * i + 11 + 1] >>
    IN  applySBox(SubkeySBoxIndex(i), k_in)

RECURSIVE RoundKeys(_, _, _)
\* for (i = Len(ks); i < n; i++) subkeys[i] = ..., run as two halves of the range
RoundKeys(w, ks, n) ==
    IF Len(ks) >= n THEN ks
    ELSE IF Len(ks) + 1 = n THEN Append(ks, NextSubkey(w, ks))
    ELSE RoundKeys(w, RoundKeys(w, ks, (Len(ks) + n) \div 2), n)

\* the table keySchedule leaves in the object: sequence index i+1 is subkeys[i]
keySchedule(key) == RoundKeys(Prekeys(KeyWords(key), 140), << >>, 33)

\* X[j] ^= k[j] for j = 0..3
MixKey(X, k) == << XOR(X[1], k[1]), XOR(X[2], k[2]), XOR(X[3], k[3]), XOR(X[4], k[4]) >>

(***************************************************************************)
(* Serpent::encryptBlock and Serpent::decryptBlock (32 rounds).            *)
(***************************************************************************)
\* one pass of the encryption loop body: the loop state <<r, X>> after round r
EncRound(sk, st) ==
    LET r == st[1]
        S == applySBox(r % 8, MixKey(st[2], sk[r + 1]))
    IN  << r + 1, IF r < 31 THEN linearTransform(S) ELSE MixKey(S, sk[32 + 1]) >>

RECURSIVE EncRounds(_, _, _)
\* for (r = st[1]; r < n; r++) from the loop state st = <<r, X>>, run as two
\* halves of the range
EncRounds(sk, st, n) ==
    IF st[1] >= n THEN st
    ELSE IF st[1] + 1 = n THEN EncRound(sk, st)
    ELSE EncRounds(sk, EncRounds(sk, st, (st[1] + n) \div 2), n)

encryptBlock(sk, input) ==
    inverseTranspose(EncRounds(sk, << 0, transpose(input) >>, 32)[2])

\* mutant of DecRound: the inverse linear transformation also in round 31
DecRoundAlwaysLT(sk, st) ==
    LET r == st[1]
    IN  << r - 1,
           MixKey(applyInverseSBox(r % 8, inverseLinearTransform(st[2])), sk[r + 1]) >>

\* one pass of the decryption loop body: the loop state <<r, X>> after round r
DecRound(sk, st) ==
    LET r == st[1]
        L == IF r < 31 THEN inverseLinearTransform(st[2]) ELSE st[2]
    IN  << r - 1, MixKey(applyInverseSBox(r % 8, L), sk[r + 1]) >>

RECURSIVE DecRounds(_, _, _)
\* for (r = st[1]; r >= n; r--) from the loop state st = <<r, X>>, run as two
\* halves of the range
DecRounds(sk, st, n) ==
    IF st[1] < n THEN st
    ELSE IF st[1] = n THEN DecRound(sk, st)
    ELSE DecRounds(sk, DecRounds(sk, st, (st[1] + n + 1) \div 2), n)

decryptBlock(sk, input) ==
    inverseTranspose(DecRounds(sk, << 31, MixKey(transpose(input), sk[32 + 1]) >>, 0)[2])

(***************************************************************************)
(* Serpent::setKey: the mpz_class session key becomes 32 key bytes.        *)
(***************************************************************************)
RECURSIVE ExportLE(_)
\* mpz_export(nullptr, &count, -1, 1, -1, 0, z) for z > 0: the bytes of z,
\* least significant first, count = the number of significant bytes
ExportLE(z) == IF z = 0 THEN << >> ELSE << z % 256 >> \o ExportLE(z \div 256)

RECURSIVE PadBack(_)
\* mutant of PadFront: the zero bytes are put behind the key bytes
PadBack(keyBytes) ==
    IF Len(keyBytes) < 32 THEN PadBack(keyBytes \o << 0 >>) ELSE keyBytes

RECURSIVE PadFront(_)
\* while (keyBytes.size() < 32) keyBytes.insert(keyBytes.begin(), 0)
PadFront(keyBytes) ==
    IF Len(keyBytes) < 32 THEN PadFront(<< 0 >> \o keyBytes) ELSE keyBytes

\* if (keyBytes.size() > 32) keep the last 32 bytes
LastBytes(keyBytes) ==
    IF Len(keyBytes) > 32
    THEN SubSeq(keyBytes, Len(keyBytes) - 32 + 1, Len(keyBytes))
    ELSE keyBytes

\* the buffer setKey hands to keySchedule
KeyBuffer(session_key) ==
    LET keyBytes == IF session_key = 0 THEN [i \in 1..32 |-> 0]
                    ELSE ExportLE(session_key)
    IN  LastBytes(PadFront(keyBytes))

setKey(session_key) == keySchedule(KeyBuffer(session_key))

\* A session key wider than the integers of the model checker is kept the way
\* mpz_class keeps it: as its limbs, least significant first, the last one
\* non-zero (no limb for 0).  Limbs(z) are the limbs of a small z.
RECURSIVE Limbs(_)
Limbs(z) ==
    IF z = 0 THEN << >> ELSE << z % (256^LimbBytes) >> \o Limbs(z \div (256^LimbBytes))

\* the bytes of one limb, least significant first
LimbBytesLE(limb) == [k \in 1..LimbBytes |-> (limb \div (256^(k - 1))) % 256]

RECURSIVE AllLimbBytes(_)
AllLimbBytes(limbs) ==
    IF limbs = << >> THEN << >>
    ELSE LimbBytesLE(Head(limbs)) \o AllLimbBytes(Tail(limbs))

RECURSIVE StripHighZeros(_)
\* the most significant zero bytes are not exported
StripHighZeros(bytes) ==
    IF bytes # << >> /\ bytes[Len(bytes)] = 0
    THEN StripHighZeros(SubSeq(bytes, 1, Len(bytes) - 1))
    ELSE bytes

\* mpz_export(nullptr, &count, -1, 1, -1, 0, z) for z > 0 given by its limbs
mpz_export(limbs) == StripHighZeros(AllLimbBytes(limbs))

\* the buffer setKey hands to keySchedule, for a session key given by its limbs
KeyBufferMpz(limbs) ==
    LET keyBytes0 == IF limbs = << >> THEN [i \in 1..32 |-> 0]
                     ELSE mpz_export(limbs)
    IN  LastBytes(PadFront(keyBytes0))

\* the table the constructor leaves: memset(subkeys, 0, sizeof(subkeys))
ZeroSubkeys == [i \in 1..33 |-> << {}, {}, {}, {} >>]

(***************************************************************************)
(* File mode: PKCS#7 padding and block-by-block processing.                *)
(***************************************************************************)
\* the little-endian words of the 16 bytes at offset i (0-based) of buffer
BlockOfBytes(buffer, i) ==
    LET inputBlock(j) == WordOfBytes(buffer[i + 4 * j + 1], buffer[i + 4 * j + 2],
                                     buffer[i + 4 * j + 3], buffer[i + 4 * j + 4])
    IN  << inputBlock(0), inputBlock(1), inputBlock(2), inputBlock(3) >>

\* the 16 bytes pushed back for outputBlock
BytesOfBlock(B) ==
    [k \in 1..16 |-> ByteOfWord(B[((k - 1) \div 4) + 1], (k - 1) % 4)]

\* mutant of PaddingLen: no padding block for a length that is a multiple of 16
PaddingLenNoFullBlock(fileSize) == (16 - (fileSize % 16)) % 16

\* size_t paddingLen = 16 - (fileSize % 16)
PaddingLen(fileSize) == 16 - (fileSize % 16)

\* buffer with paddingLen bytes of value paddingLen pushed back
PadPKCS7(buffer) ==
    buffer \o [i \in 1..PaddingLen(Len(buffer)) |-> PaddingLen(Len(buffer))]

RECURSIVE EncryptBlocksChained(_, _, _)
\* mutant of EncryptBlocks: every block but the first is mixed with the block
\* before it
EncryptBlocksChained(sk, buffer, i) ==
    IF i >= Len(buffer) THEN << >>
    ELSE LET B == IF i = 0 THEN BlockOfBytes(buffer, i)
                  ELSE MixKey(BlockOfBytes(buffer, i), BlockOfBytes(buffer, i - 16))
         IN  BytesOfBlock(encryptBlock(sk, B)) \o EncryptBlocksChained(sk, buffer, i + 16)

RECURSIVE EncryptBlocks(_, _, _)
\* for (i = 0; i < buffer.size(); i += 16) encrypt the block at i
EncryptBlocks(sk, buffer, i) ==
    IF i >= Len(buffer) THEN << >>
    ELSE BytesOfBlock(encryptBlock(sk, BlockOfBytes(buffer, i)))
            \o EncryptBlocks(sk, buffer, i + 16)

RECURSIVE DecryptBlocks(_, _, _)
\* for (i = 0; i < buffer.size(); i += 16) decrypt the block at i
DecryptBlocks(sk, buffer, i) ==
    IF i >= Len(buffer) THEN << >>
    ELSE BytesOfBlock(decryptBlock(sk, BlockOfBytes(buffer, i)))
            \o DecryptBlocks(sk, buffer, i + 16)

\* padLen > 0 && padLen <= 16 && padLen <= decryptedData.size()
PaddingOk(decryptedData) ==
    LET padLen == decryptedData[Len(decryptedData)]
    IN  padLen > 0 /\ padLen <= 16 /\ padLen <= Len(decryptedData)

\* mutant of RemovePadding: one byte too few is cut off
RemovePaddingOffByOne(decryptedData) ==
    IF decryptedData # << >> /\ PaddingOk(decryptedData)
    THEN SubSeq(decryptedData, 1,
                Len(decryptedData) - decryptedData[Len(decryptedData)] + 1)
    ELSE decryptedData

\* decryptedData after the "remove padding" step
RemovePadding(decryptedData) ==
    IF decryptedData # << >>
    THEN IF PaddingOk(decryptedData)
         THEN SubSeq(decryptedData, 1,
                     Len(decryptedData) - decryptedData[Len(decryptedData)])
         ELSE decryptedData
    ELSE decryptedData

\* a file: whether it exists, and its bytes
File(d) == [exists |-> TRUE, data |-> d]
Missing == [exists |-> FALSE, data |-> << >>]

\* encryptFile(inputFile, outputFile): <<return value, outputFile afterwards>>.
\* The output stream is opened (and the file emptied) before anything is read.
encryptFile(sk, inputFile) ==
    IF ~inputFile.exists THEN << FALSE, File(<< >>) >>
    ELSE << TRUE, File(EncryptBlocks(sk, PadPKCS7(inputFile.data), 0)) >>

\* if (fileSize % 16 != 0) return false
LengthRejected(fileSize) == fileSize % 16 # 0

\* decryptFile(inputFile, outputFile): <<return value, outputFile afterwards>>
decryptFile(sk, inputFile) ==
    IF ~inputFile.exists THEN << FALSE, File(<< >>) >>
    ELSE IF LengthRejected(Len(inputFile.data)) THEN << FALSE, File(<< >>) >>
    ELSE << TRUE, File(RemovePadding(DecryptBlocks(sk, inputFile.data, 0))) >>

(***************************************************************************)
(* modules/rsa.cpp.  Sizes are divided by BitScale and the standard public *)
(* exponent 2^16 + 1 becomes 2^(16 / ExpScale) + 1, so that every branch   *)
(* of rsa_keygen is taken by keys TLC can enumerate.                       *)
(***************************************************************************)
\* the smallest size rsa_keygen accepts (256 in the source)
MinKeygenBits == 256 \div BitScale

\* the size main.cpp, test.cpp and nsfinal.cpp ask rsa_keygen for (1024)
ProgramKeygenBits == 1024 \div BitScale

\* the size of a session key (random_bits(256))
SessionKeyBits == 256 \div BitScale

\* mpz_class e = 65537
PublicExponent == 2^(16 \div ExpScale) + 1

\* what the generator may return in lo..hi: the RngSpread lowest and the
\* RngSpread highest values
Draws(lo, hi) == {x \in lo..hi : x < lo + RngSpread \/ x > hi - RngSpread}

\* random_bits: get_z_bits(bits) with the highest of the bits set
random_bits(bits) == IF bits = 0 THEN {0} ELSE Draws(2^(bits - 1), 2^bits - 1)

IsPrime(x) == x > 1 /\ \A f \in 2..(x - 1) : f * f > x \/ x % f # 0

\* mpz_nextprime: the smallest prime greater than x
RECURSIVE NextPrime(_)
NextPrime(x) == IF IsPrime(x + 1) THEN x + 1 ELSE NextPrime(x + 1)

next_prime_of_bits(bits) == {NextPrime(x) : x \in random_bits(bits)}

\* mpz_gcd
RECURSIVE GCD(_, _)
GCD(a, b) == IF b = 0 THEN a ELSE GCD(b, a % b)

\* << g, s, t >> with g = gcd(a, b) = s * a + t * b
RECURSIVE ExtendedGCD(_, _)
ExtendedGCD(a, b) ==
    IF b = 0 THEN << a, 1, 0 >>
    ELSE LET r == ExtendedGCD(b, a % b)
         IN  << r[1], r[3], r[2] - (a \div b) * r[3] >>

\* mutant of Invert: the cofactor of phi in place of the cofactor of e
InvertOther(e, phi) == ExtendedGCD(e, phi)[3] % phi

\* mpz_invert(d, e, phi): d when the inverse exists (its return value is then
\* non-zero)
Invert(e, phi) == ExtendedGCD(e, phi)[2] % phi

\* a * b mod n, for a and b below n.  The moduli of this model are below
\* 2^15.5, so the product is below 2^31.
MulMod(a, b, n) == (a * b) % n

\* mpz_powm
RECURSIVE PowMod(_, _, _)
PowMod(b, e, n) ==
    IF e = 0 THEN 1 % n
    ELSE LET h == PowMod(b, e \div 2, n)
             sq == MulMod(h, h, n)
         IN  IF e % 2 = 1 THEN MulMod(sq, b % n, n) ELSE sq

RSAKey(n, e, d) == [n |-> n, e |-> e, d |-> d]

\* a default-constructed RSAKey: three mpz_class zeros
NoKey == RSAKey(0, 0, 0)

\* the e rsa_keygen leaves its exponent loop with: the standard exponent when
\* it is coprime to phi, else any coprime outcome of
\* "e = get_z_range(phi - 2) + 2; if (e % 2 == 0) e += 1"
ExponentDraw(r) == IF (r + 2) % 2 = 0 THEN r + 3 ELSE r + 2

Exponents(phi) ==
    IF GCD(PublicExponent, phi) = 1 THEN {PublicExponent}
    ELSE {e \in {ExponentDraw(r) : r \in Draws(0, phi - 3)} : GCD(e, phi) = 1}

\* the locals of rsa_keygen when it returns or throws
Keygen(bits, p, q, e, thrown, key) ==
    [bits |-> bits, p |-> p, q |-> q, phi |-> (p - 1) * (q - 1), e |-> e,
     thrown |-> thrown, key |-> key]

\* rsa_keygen(bits): every outcome the random draws allow.  The loop
\* "while (p == q)" ends with a q other than p.
rsa_keygen(bits) ==
    IF bits < MinKeygenBits
    THEN {Keygen(bits, 0, 0, 0, "invalid_argument", NoKey)}
    ELSE LET half == bits \div 2
             Finish(p, q, e) ==
                 LET phi == (p - 1) * (q - 1)
                 IN  IF GCD(e, phi) # 1
                     THEN Keygen(bits, p, q, e, "runtime_error", NoKey)
                     ELSE Keygen(bits, p, q, e, "", RSAKey(p * q, e, Invert(e, phi)))
             WithPrimes(p, q) == {Finish(p, q, e) : e \in Exponents((p - 1) * (q - 1))}
         IN  UNION {WithPrimes(pq[1], pq[2]) :
                      pq \in {x \in next_prime_of_bits(half) \X next_prime_of_bits(bits - half) :
                                x[1] # x[2]}}

\* mutant of rsa_encrypt: no check of the message against n
rsa_encryptUnchecked(m, key) == << "", PowMod(m % key.n, key.e, key.n) >>

\* rsa_encrypt: << exception thrown ("" for none), c >>
rsa_encrypt(m, key) ==
    IF m < 0 THEN << "invalid_argument", 0 >>
    ELSE IF m >= key.n THEN << "invalid_argument", 0 >>
    ELSE << "", PowMod(m, key.e, key.n) >>

\* mutant of rsa_decrypt: the public exponent in place of the private one
rsa_decryptPublic(c, key) ==
    IF c < 0 \/ c >= key.n THEN << "invalid_argument", 0 >>
    ELSE << "", PowMod(c, key.e, key.n) >>

\* mutant of rsa_decrypt: no check of the cipher against n
rsa_decryptUnchecked(c, key) ==
    IF c < 0 THEN << "invalid_argument", 0 >>
    ELSE << "", PowMod(c % key.n, key.d, key.n) >>

\* rsa_decrypt: << exception thrown ("" for none), m >>
rsa_decrypt(c, key) ==
    IF c < 0 THEN << "invalid_argument", 0 >>
    ELSE IF c >= key.n THEN << "invalid_argument", 0 >>
    ELSE << "", PowMod(c, key.d, key.n) >>

(***************************************************************************)
(* State.                                                                  *)
(***************************************************************************)
VARIABLES
    pc,          \* where the calling program is
    subkeys,     \* Serpent::subkeys, the 33x4 table of the cipher object
    keyed,       \* the session key last given to setKey, -1 before any
    plainFile,   \* the file encryptFile reads
    encFile,     \* the file encryptFile writes
    encKeyed,    \* the value of keyed when encFile was written
    decIn,       \* the file decryptFile read
    decFile,     \* the file decryptFile writes
    ret,         \* return value of the last encryptFile / decryptFile / compare_files,
                 \* after runComponentTest whether every check printed PASS
    lastOp,      \* the function called last
    blockIn,     \* the block handed to encryptBlock
    blockOut,    \* the block the last block operation returned
    kg,          \* the locals of the last rsa_keygen call
    rsa_key,     \* test.cpp rsa_key, nsfinal.cpp key
    session_key,             \* the message given to rsa_encrypt
    encrypted_session_key,   \* what rsa_encrypt returned
    decrypted_session_key,   \* what rsa_decrypt returned
    thrown,      \* the exception the last call threw, "" for none
    globalRSAKey,  \* main.cpp globalRSAKey
    hasKey,        \* main.cpp hasKey
    keyDisk,       \* the key file option 1 of main.cpp writes
    sessionDisk,   \* the session key file option 3 of main.cpp writes
    menuRounds,    \* menu choices made so far
    keyMpz,        \* the mpz_class last given to setKey, as its limbs
    keyBytes,      \* the buffer setKey last handed to keySchedule
    sboxRound,     \* the round argument of the last applySBox call
    encPlain,      \* what plainFile held when encFile was written
    calls          \* calls made on the cipher object so far

serpentVars ==
    << subkeys, keyed, plainFile, encFile, encKeyed, decIn, decFile, ret >>

blockVars == << blockIn, blockOut >>

rsaVars ==
    << kg, rsa_key, session_key, encrypted_session_key, decrypted_session_key, thrown >>

mainVars == << globalRSAKey, hasKey, keyDisk, sessionDisk, menuRounds >>

callVars == << keyMpz, keyBytes, sboxRound, encPlain, calls >>

vars == << pc, lastOp, serpentVars, blockVars, rsaVars, mainVars, callVars >>

\* before any call of rsa_keygen
NoKeygen ==
    [bits |-> -1, p |-> 0, q |-> 0, phi |-> 0, e |-> 0, thrown |-> "", key |-> NoKey]

ZeroBlock == << {}, {}, {}, {} >>

\* a freshly constructed Serpent object, no file written yet
SerpentIdle ==
    /\ subkeys = ZeroSubkeys
    /\ keyed = -1
    /\ encFile = Missing
    /\ encKeyed = -1
    /\ decIn = Missing
    /\ decFile = Missing
    /\ ret = FALSE

BlockIdle == blockIn = ZeroBlock /\ blockOut = ZeroBlock

RsaIdle ==
    /\ kg = NoKeygen
    /\ rsa_key = NoKey
    /\ session_key = 0
    /\ encrypted_session_key = 0
    /\ decrypted_session_key = 0
    /\ thrown = ""

MainIdle ==
    /\ globalRSAKey = NoKey
    /\ hasKey = FALSE
    /\ keyDisk = Missing
    /\ sessionDisk = Missing
    /\ menuRounds = 0

\* no call made yet
CallIdle ==
    /\ keyMpz = << >>
    /\ keyBytes = << >>
    /\ sboxRound = 0
    /\ encPlain = Missing
    /\ calls = 0

(***************************************************************************)
(* Inputs of the cipher object's caller.                                   *)
(***************************************************************************)
\* byte i (1-based) of the plaintext pattern p: pattern 0 counts 1, 2, 3, ...
\* (so that plaintexts end in bytes that look like padding), pattern 1 is all
\* 0x41, the others are multiples of p
PatternByte(p, i) == IF p = 1 THEN 65 ELSE (i * (p + 1)) % 256

Plaintexts ==
    {[i \in 1..len |-> PatternByte(p, i)] : len \in 0..MaxPlainLen, p \in 0..(NumPatterns - 1)}

\* session keys handed to setKey
SessionKeys == {0, 1}

\* the last byte of d with every bit flipped
FlipLast(d) == [d EXCEPT ![Len(d)] = 255 - d[Len(d)]]

\* what decryptFile may be pointed at: the ciphertext file as encryptFile left it,
\* or a damaged copy (last byte flipped, last byte cut off, emptied)
CiphertextInputs(f) ==
    IF f.exists /\ f.data # << >>
    THEN {f, File(FlipLast(f.data)), File(SubSeq(f.data, 1, Len(f.data) - 1)), File(<< >>)}
    ELSE {f}

(***************************************************************************)
(* A program using one Serpent object as test.cpp does (Steps 5 to 7):     *)
(* setKey, encryptFile, setKey, decryptFile.  The key may be left unset or *)
(* set anew before each file operation, and the ciphertext file may be     *)
(* damaged between the two file operations.                                *)
(***************************************************************************)
Init ==
    /\ pc = "Step5"
    /\ lastOp = "Serpent"
    /\ plainFile \in {File(b) : b \in Plaintexts} \cup {Missing}
    /\ SerpentIdle
    /\ BlockIdle
    /\ RsaIdle
    /\ MainIdle
    /\ CallIdle

SetKey(key) ==
    /\ pc \in {"Step5", "Step7"}
    /\ subkeys' = setKey(key)
    /\ keyed' = key
    /\ lastOp' = "setKey"
    /\ UNCHANGED << pc, plainFile, encFile, encKeyed, decIn, decFile, ret >>
    /\ UNCHANGED << blockVars, rsaVars, mainVars >>
    /\ UNCHANGED callVars

EncryptFile ==
    /\ pc = "Step5"
    /\ LET r == encryptFile(subkeys, plainFile)
       IN  /\ ret' = r[1]
           /\ encFile' = r[2]
           /\ pc' = IF r[1] THEN "Step7" ELSE "return1"
    /\ encKeyed' = keyed
    /\ lastOp' = "encryptFile"
    /\ UNCHANGED << subkeys, keyed, plainFile, decIn, decFile >>
    /\ UNCHANGED << blockVars, rsaVars, mainVars >>
    /\ UNCHANGED callVars

DecryptFile(inputFile) ==
    /\ pc = "Step7"
    /\ LET r == decryptFile(subkeys, inputFile)
       IN  /\ ret' = r[1]
           /\ decFile' = r[2]
           /\ pc' = IF r[1] THEN "Step8" ELSE "return1"
    /\ decIn' = inputFile
    /\ lastOp' = "decryptFile"
    /\ UNCHANGED << subkeys, keyed, plainFile, encFile, encKeyed >>
    /\ UNCHANGED << blockVars, rsaVars, mainVars >>
    /\ UNCHANGED callVars

Next ==
    \/ \E k \in SessionKeys : SetKey(k)
    \/ EncryptFile
    \/ \E f \in CiphertextInputs(encFile) : DecryptFile(f)

Spec == Init /\ [][Next]_vars

(***************************************************************************)
(* Claims about the file mode (specification Spec).                        *)
(***************************************************************************)
\* decryptFile has just run on a file it accepted for block decryption
Decrypted ==
    /\ lastOp = "decryptFile"
    /\ decIn.exists
    /\ ~LengthRejected(Len(decIn.data))

\* C1: decryptFile applied to the output of encryptFile on b, by a Serpent object
\* keyed by setKey with the same key, succeeds and writes exactly b (also for
\* the empty b and for b of a length that is a multiple of 16).
C1_FileRoundTrip ==
    (/\ lastOp = "decryptFile"
     /\ decIn = encFile
     /\ keyed \in SessionKeys
     /\ encKeyed = keyed)
    => (ret = TRUE /\ decFile = plainFile)

C1_Witness ==
    /\ lastOp = "decryptFile"
    /\ decIn = encFile
    /\ keyed \in SessionKeys
    /\ encKeyed = keyed
    /\ Len(plainFile.data) = 16
    /\ ret = TRUE
    /\ decFile = plainFile

\* C2 (as claimed): when the last decrypted byte fails the padding validation,
\* decryptFile reports failure and writes no decrypted bytes.
C2_InvalidPaddingRejected ==
    (/\ Decrypted
     /\ decIn.data # << >>
     /\ ~PaddingOk(DecryptBlocks(subkeys, decIn.data, 0)))
    => (ret = FALSE /\ decFile.data = << >>)

\* C3 (as claimed): decryptFile fails and writes no output bytes whenever the
\* ciphertext length is not a positive multiple of 16 (0 included).
C3_BadLengthRejected ==
    (/\ lastOp = "decryptFile"
     /\ decIn.exists
     /\ (Len(decIn.data) = 0 \/ Len(decIn.data) % 16 # 0))
    => (ret = FALSE /\ decFile.data = << >>)

\* C7: for a plaintext of length L, encryptFile encrypts the plaintext followed
\* by P = 16 - (L mod 16) bytes of value P, P in 1..16, so the ciphertext has
\* ((L div 16) + 1) * 16 bytes.
C7_PaddingAndLength ==
    (lastOp = "encryptFile" /\ ret = TRUE)
    => LET L == Len(plainFile.data)
           P == 16 - (L % 16)
           padded == DecryptBlocks(subkeys, encFile.data, 0)
       IN  /\ P \in 1..16
           /\ Len(encFile.data) = ((L \div 16) + 1) * 16
           /\ Len(padded) = L + P
           /\ SubSeq(padded, 1, L) = plainFile.data
           /\ \A i \in (L + 1)..(L + P) : padded[i] = P

C7_Witness ==
    /\ lastOp = "encryptFile"
    /\ ret = TRUE
    /\ Len(plainFile.data) = 16
    /\ Len(encFile.data) = 32

(***************************************************************************)
(* encryptBlock and decryptBlock as functions of a subkey table and a      *)
(* block (specification SpecBlock).                                        *)
(***************************************************************************)
\* byte k (0-based) of the n-th input block
TestByte(n, k) == (n * (2 * k + 1) * 37 + k * k * 11 + n * n) % 256

TestBlock(n) == BlockOfBytes([k \in 1..16 |-> TestByte(n, k - 1)], 0)

Blocks == {TestBlock(n) : n \in 0..(NumBlocks - 1)}

\* the table of a new object and the tables setKey derives
SubkeyTables == {ZeroSubkeys} \cup {setKey(k) : k \in SessionKeys}

InitBlock ==
    /\ pc = "block"
    /\ lastOp = "Serpent"
    /\ plainFile = Missing
    /\ subkeys \in SubkeyTables
    /\ keyed = -1
    /\ encFile = Missing
    /\ encKeyed = -1
    /\ decIn = Missing
    /\ decFile = Missing
    /\ ret = FALSE
    /\ blockIn \in Blocks
    /\ blockOut = ZeroBlock
    /\ RsaIdle
    /\ MainIdle
    /\ CallIdle

EncryptBlock ==
    /\ lastOp = "Serpent"
    /\ blockOut' = encryptBlock(subkeys, blockIn)
    /\ lastOp' = "encryptBlock"
    /\ UNCHANGED << pc, blockIn, serpentVars, rsaVars, mainVars >>
    /\ UNCHANGED callVars

DecryptBlock ==
    /\ lastOp = "encryptBlock"
    /\ blockOut' = decryptBlock(subkeys, blockOut)
    /\ lastOp' = "decryptBlock"
    /\ UNCHANGED << pc, blockIn, serpentVars, rsaVars, mainVars >>
    /\ UNCHANGED callVars

NextBlock == EncryptBlock \/ DecryptBlock

SpecBlock == InitBlock /\ [][NextBlock]_vars

\* C6: decryptBlock, under the subkey table derived from a key, applied to
\* encryptBlock(P) under the same table returns the block P.
C6_BlockRoundTrip ==
    lastOp = "decryptBlock" => blockOut = blockIn

C6_Witness ==
    /\ lastOp = "decryptBlock"
    /\ subkeys = setKey(1)
    /\ blockIn = TestBlock(1)
    /\ blockOut = blockIn

(***************************************************************************)
(* rsa_keygen, rsa_encrypt and rsa_decrypt called in turn, as nsfinal.cpp  *)
(* does inside its try block (specification SpecRSA).  The key size and    *)
(* the message are the caller's.                                           *)
(***************************************************************************)
\* the messages tried with a key: all of 0..n-1 and the nearest values outside
Messages(key) == (-1)..key.n

InitRSA ==
    /\ pc = "rsa_keygen"
    /\ lastOp = "main"
    /\ plainFile = Missing
    /\ SerpentIdle
    /\ BlockIdle
    /\ RsaIdle
    /\ MainIdle
    /\ CallIdle

RsaKeygen(bits) ==
    /\ pc = "rsa_keygen"
    /\ \E r \in rsa_keygen(bits) :
         /\ kg' = r
         /\ thrown' = r.thrown
         /\ rsa_key' = r.key
         /\ pc' = IF r.thrown = "" THEN "rsa_encrypt" ELSE "catch"
    /\ lastOp' = "rsa_keygen"
    /\ UNCHANGED << session_key, encrypted_session_key, decrypted_session_key >>
    /\ UNCHANGED << plainFile, serpentVars, blockVars, mainVars >>
    /\ UNCHANGED callVars

RsaEncrypt(m) ==
    /\ pc = "rsa_encrypt"
    /\ session_key' = m
    /\ LET r == rsa_encrypt(m, rsa_key)
       IN  /\ thrown' = r[1]
           /\ encrypted_session_key' = r[2]
           /\ pc' = IF r[1] = "" THEN "rsa_decrypt" ELSE "catch"
    /\ lastOp' = "rsa_encrypt"
    /\ UNCHANGED << kg, rsa_key, decrypted_session_key >>
    /\ UNCHANGED << plainFile, serpentVars, blockVars, mainVars >>
    /\ UNCHANGED callVars

RsaDecrypt ==
    /\ pc = "rsa_decrypt"
    /\ LET r == rsa_decrypt(encrypted_session_key, rsa_key)
       IN  /\ thrown' = r[1]
           /\ decrypted_session_key' = r[2]
           /\ pc' = IF r[1] = "" THEN "compare" ELSE "catch"
    /\ lastOp' = "rsa_decrypt"
    /\ UNCHANGED << kg, rsa_key, session_key, encrypted_session_key >>
    /\ UNCHANGED << plainFile, serpentVars, blockVars, mainVars >>
    /\ UNCHANGED callVars

NextRSA ==
    \/ \E bits \in 0..MaxKeygenBits : RsaKeygen(bits)
    \/ \E m \in Messages(rsa_key) : RsaEncrypt(m)
    \/ RsaDecrypt

SpecRSA == InitRSA /\ [][NextRSA]_vars

\* C5: for every key returned by rsa_keygen and every m with 0 <= m < n, also
\* when m is not coprime to n, rsa_encrypt and rsa_decrypt accept their
\* arguments and rsa_decrypt(rsa_encrypt(m, key), key) = m.
C5_RsaRoundTrip ==
    (/\ lastOp \in {"rsa_encrypt", "rsa_decrypt"}
     /\ 0 <= session_key
     /\ session_key < rsa_key.n)
    => /\ thrown = ""
       /\ lastOp = "rsa_decrypt" => decrypted_session_key = session_key

C5_Witness ==
    /\ lastOp = "rsa_decrypt"
    /\ session_key > 1
    /\ GCD(session_key, rsa_key.n) # 1
    /\ encrypted_session_key # session_key
    /\ decrypted_session_key = session_key

\* C8 (as claimed): every key returned by rsa_keygen(bits) has n >= 2^(bits-1).
C8_ModulusHasAllBits ==
    (lastOp = "rsa_keygen" /\ thrown = "")
    => rsa_key.n >= 2^(kg.bits - 1)

\* C9: rsa_keygen(bits) throws invalid_argument when bits is below the minimum;
\* otherwise it returns n = p*q for distinct primes p and q, the standard
\* public exponent when that is coprime to phi = (p-1)(q-1) and else an odd e
\* in [3, phi) coprime to phi, and d with 0 < d < phi and e*d = 1 (mod phi).
C9_KeygenContract ==
    lastOp = "rsa_keygen"
    => IF kg.bits < MinKeygenBits
       THEN thrown = "invalid_argument" /\ pc = "catch"
       ELSE /\ thrown = ""
            /\ IsPrime(kg.p) /\ IsPrime(kg.q) /\ kg.p # kg.q
            /\ rsa_key.n = kg.p * kg.q
            /\ kg.phi = (kg.p - 1) * (kg.q - 1)
            /\ IF GCD(PublicExponent, kg.phi) = 1
               THEN rsa_key.e = PublicExponent
               ELSE /\ rsa_key.e % 2 = 1
                    /\ 3 <= rsa_key.e /\ rsa_key.e < kg.phi
                    /\ GCD(rsa_key.e, kg.phi) = 1
            /\ 0 < rsa_key.d /\ rsa_key.d < kg.phi
            /\ MulMod(rsa_key.e, rsa_key.d, kg.phi) = 1

C9_Witness ==
    /\ lastOp = "rsa_keygen"
    /\ thrown = ""
    /\ GCD(PublicExponent, kg.phi) # 1
    /\ rsa_key.e # PublicExponent
    /\ rsa_key.e # rsa_key.d


(***************************************************************************)
(* test.cpp: the hybrid integration test, Step 1 to Step 8 (specification  *)
(* SpecHybrid).  The file of Step 0 and the key size of Step 1 are the     *)
(* inputs: test.cpp asks for ProgramKeygenBits, and the sizes from the     *)
(* smallest rsa_keygen accepts up to two bits above the session key's are  *)
(* tried as well.                                                          *)
(***************************************************************************)
HybridKeygenBits == (MinKeygenBits .. (SessionKeyBits + 2)) \cup {ProgramKeygenBits}

HybridPlaintexts == {b \in Plaintexts : Len(b) \in {0, 1, 16}}

\* compare_files: std::equal over the bytes of f1 against the start of f2.  It
\* reads past the end of f2 when f2 is the shorter file; any result is allowed
\* then.
compare_files(f1, f2) ==
    IF ~f1.exists \/ ~f2.exists THEN {FALSE}
    ELSE IF Len(f2.data) < Len(f1.data) THEN BOOLEAN
    ELSE {SubSeq(f2.data, 1, Len(f1.data)) = f1.data}

InitHybrid ==
    /\ pc = "Step1"
    /\ lastOp = "create_dummy_file"
    /\ plainFile \in {File(b) : b \in HybridPlaintexts}
    /\ SerpentIdle
    /\ BlockIdle
    /\ RsaIdle
    /\ MainIdle
    /\ CallIdle

Step1 ==
    /\ pc = "Step1"
    /\ \E bits \in HybridKeygenBits : \E r \in rsa_keygen(bits) :
         /\ kg' = r
         /\ thrown' = r.thrown
         /\ rsa_key' = r.key
         /\ pc' = IF r.thrown = "" THEN "Step2" ELSE "terminate"
    /\ lastOp' = "rsa_keygen"
    /\ UNCHANGED << session_key, encrypted_session_key, decrypted_session_key >>
    /\ UNCHANGED << plainFile, serpentVars, blockVars, mainVars >>
    /\ UNCHANGED callVars

Step2 ==
    /\ pc = "Step2"
    /\ session_key' \in random_bits(SessionKeyBits)
    /\ pc' = "Step3"
    /\ lastOp' = "random_bits"
    /\ UNCHANGED << kg, rsa_key, encrypted_session_key, decrypted_session_key, thrown >>
    /\ UNCHANGED << plainFile, serpentVars, blockVars, mainVars >>
    /\ UNCHANGED callVars

Step3 ==
    /\ pc = "Step3"
    /\ LET r == rsa_encrypt(session_key, rsa_key)
       IN  /\ thrown' = r[1]
           /\ encrypted_session_key' = r[2]
           /\ pc' = IF r[1] = "" THEN "Step4" ELSE "terminate"
    /\ lastOp' = "rsa_encrypt"
    /\ UNCHANGED << kg, rsa_key, session_key, decrypted_session_key >>
    /\ UNCHANGED << plainFile, serpentVars, blockVars, mainVars >>
    /\ UNCHANGED callVars

Step4 ==
    /\ pc = "Step4"
    /\ LET r == rsa_decrypt(encrypted_session_key, rsa_key)
       IN  /\ thrown' = r[1]
           /\ decrypted_session_key' = r[2]
           /\ pc' = IF r[1] # "" THEN "terminate"
                    ELSE IF session_key = r[2] THEN "Step5" ELSE "return1"
    /\ lastOp' = "rsa_decrypt"
    /\ UNCHANGED << kg, rsa_key, session_key, encrypted_session_key >>
    /\ UNCHANGED << plainFile, serpentVars, blockVars, mainVars >>
    /\ UNCHANGED callVars

Step5 ==
    /\ pc = "Step5"
    /\ subkeys' = setKey(decrypted_session_key)
    /\ keyed' = decrypted_session_key
    /\ pc' = "Step6"
    /\ lastOp' = "setKey"
    /\ UNCHANGED << plainFile, encFile, encKeyed, decIn, decFile, ret >>
    /\ UNCHANGED << blockVars, rsaVars, mainVars >>
    /\ UNCHANGED callVars

Step6 ==
    /\ pc = "Step6"
    /\ LET r == encryptFile(subkeys, plainFile)
       IN  /\ ret' = r[1]
           /\ encFile' = r[2]
           /\ pc' = IF r[1] THEN "Step7" ELSE "return1"
    /\ encKeyed' = keyed
    /\ lastOp' = "encryptFile"
    /\ UNCHANGED << subkeys, keyed, plainFile, decIn, decFile >>
    /\ UNCHANGED << blockVars, rsaVars, mainVars >>
    /\ UNCHANGED callVars

Step7 ==
    /\ pc = "Step7"
    /\ LET sk == setKey(decrypted_session_key)
           r == decryptFile(sk, encFile)
       IN  /\ subkeys' = sk
           /\ ret' = r[1]
           /\ decFile' = r[2]
           /\ pc' = IF r[1] THEN "Step8" ELSE "return1"
    /\ keyed' = decrypted_session_key
    /\ decIn' = encFile
    /\ lastOp' = "decryptFile"
    /\ UNCHANGED << plainFile, encFile, encKeyed >>
    /\ UNCHANGED << blockVars, rsaVars, mainVars >>
    /\ UNCHANGED callVars

Step8 ==
    /\ pc = "Step8"
    /\ ret' \in compare_files(plainFile, decFile)
    /\ pc' = "return0"
    /\ lastOp' = "compare_files"
    /\ UNCHANGED << subkeys, keyed, plainFile, encFile, encKeyed, decIn, decFile >>
    /\ UNCHANGED << blockVars, rsaVars, mainVars >>
    /\ UNCHANGED callVars

NextHybrid ==
    \/ Step1
    \/ Step2
    \/ Step3
    \/ Step4
    \/ Step5
    \/ Step6
    \/ Step7
    \/ Step8

SpecHybrid == InitHybrid /\ [][NextHybrid]_vars

\* C4 (as claimed): for a random session key s, any RSA key from rsa_keygen
\* and any buffer b, sealing s with rsa_encrypt, recovering it with
\* rsa_decrypt, keying Serpent with the recovered value and decrypting the
\* file encrypted under s returns exactly b: no step is rejected and the
\* decrypted file is b.
C4_HybridRoundTripAnyKey ==
    /\ pc \notin {"terminate", "return1"}
    /\ pc \in {"Step8", "return0"} => decFile = plainFile

\* C4 (amended): the same for the keys with s < n, which are all the keys of
\* rsa_keygen(bits) with bits at least two more than the session key's size;
\* for the other keys rsa_encrypt rejects s.
C4_HybridRoundTrip ==
    /\ pc = "terminate" => (lastOp = "rsa_encrypt" /\ session_key >= rsa_key.n)
    /\ kg.bits >= SessionKeyBits + 2 => pc # "terminate"
    /\ pc # "return1"
    /\ pc \in {"Step5", "Step6", "Step7", "Step8", "return0"}
         => decrypted_session_key = session_key
    /\ pc \in {"Step8", "return0"} => decFile = plainFile
    /\ pc = "return0" => ret = TRUE

C4_Witness ==
    /\ pc = "return0"
    /\ ret = TRUE
    /\ kg.bits = ProgramKeygenBits
    /\ rsa_key.e # rsa_key.d
    /\ encrypted_session_key # session_key
    /\ Len(plainFile.data) = 16
    /\ decFile = plainFile

(***************************************************************************)
(* main.cpp: the menu loop with its options 1 (generate), 2 (load),        *)
(* 3 (encrypt), 4 (decrypt) and 6 (leave) (specification SpecMain).  A key *)
(* file is a sequence of whitespace-separated words, a word a sequence of  *)
(* character codes.  Option 5 only reads a file and prints its hash.       *)
(***************************************************************************)
\* mpz_class::get_str(), operator<<: the decimal digits of z >= 0
RECURSIVE get_str(_)
get_str(z) == IF z < 10 THEN << 48 + z >> ELSE get_str(z \div 10) \o << 48 + (z % 10) >>

\* a word operator>> and mpz_class(string) read as a number
IsNumeral(word) == word # << >> /\ \A i \in 1..Len(word) : word[i] \in 48..57

RECURSIVE ParseNumeral(_)
ParseNumeral(word) ==
    IF word = << >> THEN 0
    ELSE 10 * ParseNumeral(SubSeq(word, 1, Len(word) - 1)) + (word[Len(word)] - 48)

\* saveRSAKey: n, e and d, a line each
KeyText(key) == << get_str(key.n), get_str(key.e), get_str(key.d) >>

\* the word "x"
Junk == << 120 >>

\* the key files the user may find in data/ and name in option 2, besides the
\* one option 1 writes: saved keys of the smallest size rsa_keygen makes, a file
\* that holds only a modulus, a file that is not a key, an empty file
KeyFiles ==
    {File(KeyText(r.key)) : r \in rsa_keygen(MinKeygenBits)}
        \cup {File(<< get_str(7) >>), File(<< Junk >>), File(<< >>)}

\* loadRSAKey: << return value, globalRSAKey, hasKey >>.  An extraction that
\* fails leaves its target as it was and makes the later ones fail.
loadRSAKey(file, key, has) ==
    IF ~file.exists THEN << FALSE, key, has >>
    ELSE LET Good(i) == \A j \in 1..i : Len(file.data) >= j /\ IsNumeral(file.data[j])
             n == IF Good(1) THEN ParseNumeral(file.data[1]) ELSE key.n
             e == IF Good(2) THEN ParseNumeral(file.data[2]) ELSE key.e
             d == IF Good(3) THEN ParseNumeral(file.data[3]) ELSE key.d
         IN  IF ~Good(3) THEN << FALSE, RSAKey(n, e, d), has >>
             ELSE << TRUE, RSAKey(n, e, d), TRUE >>

\* the file option 3 encrypts
MainPlaintext == [i \in 1..3 |-> PatternByte(0, i)]

InitMain ==
    /\ pc = "menu"
    /\ lastOp = "main"
    /\ plainFile = File(MainPlaintext)
    /\ SerpentIdle
    /\ BlockIdle
    /\ RsaIdle
    /\ MainIdle
    /\ CallIdle

\* choice '1': rsa_keygen(1024), hasKey = true, saveRSAKey; an exception is
\* caught and reported
Option1 ==
    /\ pc = "menu"
    /\ menuRounds < MaxMenuRounds
    /\ \E r \in rsa_keygen(ProgramKeygenBits) :
         /\ kg' = r
         /\ thrown' = r.thrown
         /\ IF r.thrown = ""
            THEN /\ globalRSAKey' = r.key
                 /\ hasKey' = TRUE
                 /\ keyDisk' = File(KeyText(r.key))
            ELSE UNCHANGED << globalRSAKey, hasKey, keyDisk >>
    /\ menuRounds' = menuRounds + 1
    /\ lastOp' = "1"
    /\ UNCHANGED << pc, sessionDisk, plainFile, serpentVars, blockVars >>
    /\ UNCHANGED << rsa_key, session_key, encrypted_session_key, decrypted_session_key >>
    /\ UNCHANGED callVars

\* choice '2': loadRSAKey on the file the user names, again until it succeeds
Option2(file) ==
    /\ \/ pc = "menu" /\ menuRounds < MaxMenuRounds /\ menuRounds' = menuRounds + 1
       \/ pc = "option2" /\ UNCHANGED menuRounds
    /\ LET r == loadRSAKey(file, globalRSAKey, hasKey)
       IN  /\ globalRSAKey' = r[2]
           /\ hasKey' = r[3]
           /\ pc' = IF r[1] THEN "menu" ELSE "option2"
    /\ lastOp' = "2"
    /\ UNCHANGED << keyDisk, sessionDisk, plainFile, serpentVars, blockVars, rsaVars >>
    /\ UNCHANGED callVars

\* choice '3': without a key a warning; else a session key is drawn, sealed
\* with rsa_encrypt (nothing catches what it throws) and written, and the
\* file is encrypted by a new Serpent object keyed with the session key
Option3 ==
    /\ pc = "menu"
    /\ menuRounds < MaxMenuRounds
    /\ menuRounds' = menuRounds + 1
    /\ lastOp' = "3"
    /\ IF ~hasKey
       THEN UNCHANGED << pc, sessionDisk, serpentVars, session_key,
                         encrypted_session_key, thrown >>
       ELSE \E sessionKey \in random_bits(SessionKeyBits) :
              LET r == rsa_encrypt(sessionKey, globalRSAKey)
                  f == encryptFile(setKey(sessionKey), plainFile)
              IN  /\ session_key' = sessionKey
                  /\ thrown' = r[1]
                  /\ encrypted_session_key' = r[2]
                  /\ IF r[1] # ""
                     THEN /\ pc' = "terminate"
                          /\ UNCHANGED << sessionDisk, serpentVars >>
                     ELSE /\ pc' = "menu"
                          /\ sessionDisk' = File(<< get_str(r[2]) >>)
                          /\ ret' = f[1]
                          /\ encFile' = f[2]
                          /\ encKeyed' = sessionKey
                          /\ UNCHANGED << subkeys, keyed, decIn, decFile >>
    /\ UNCHANGED << globalRSAKey, hasKey, keyDisk, plainFile, blockVars >>
    /\ UNCHANGED << kg, rsa_key, decrypted_session_key >>
    /\ UNCHANGED callVars

\* choice '4': without a key a warning; the prompt repeats until the user names
\* an existing file, the one option 3 wrote; without a session key file a
\* message; else the word in that file is made a number and unsealed with
\* rsa_decrypt (nothing catches what the two throw), and the file is decrypted
\* by a new Serpent object keyed with the result
Option4 ==
    /\ pc = "menu"
    /\ menuRounds < MaxMenuRounds
    /\ hasKey => encFile.exists
    /\ menuRounds' = menuRounds + 1
    /\ lastOp' = "4"
    /\ IF ~hasKey \/ ~sessionDisk.exists
       THEN UNCHANGED << pc, serpentVars, decrypted_session_key, thrown >>
       ELSE LET keyStr == IF sessionDisk.data = << >> THEN << >> ELSE sessionDisk.data[1]
                r == IF IsNumeral(keyStr)
                     THEN rsa_decrypt(ParseNumeral(keyStr), globalRSAKey)
                     ELSE << "invalid_argument", 0 >>
                f == decryptFile(setKey(r[2]), encFile)
            IN  /\ thrown' = r[1]
                /\ IF r[1] # ""
                   THEN /\ pc' = "terminate"
                        /\ UNCHANGED << serpentVars, decrypted_session_key >>
                   ELSE /\ pc' = "menu"
                        /\ decrypted_session_key' = r[2]
                        /\ ret' = f[1]
                        /\ decFile' = f[2]
                        /\ decIn' = encFile
                        /\ UNCHANGED << subkeys, keyed, encFile, encKeyed >>
    /\ UNCHANGED << globalRSAKey, hasKey, keyDisk, sessionDisk, plainFile, blockVars >>
    /\ UNCHANGED << kg, rsa_key, session_key, encrypted_session_key >>
    /\ UNCHANGED callVars

\* choice '6'
Option6 ==
    /\ pc = "menu"
    /\ pc' = "return0"
    /\ lastOp' = "6"
    /\ UNCHANGED << plainFile, serpentVars, blockVars, rsaVars, mainVars >>
    /\ UNCHANGED callVars

NextMain ==
    \/ Option1
    \/ \E file \in KeyFiles \cup {keyDisk} : Option2(file)
    \/ Option3
    \/ Option4
    \/ Option6

SpecMain == InitMain /\ [][NextMain]_vars

\* C10 (as claimed): whenever option 3 seals a fresh session key under the key
\* held (hasKey true, from option 1 or from option 2), session_key < n holds
\* and rsa_encrypt does not reject the session key.
C10_SessionKeyBelowModulus ==
    (lastOp = "3" /\ hasKey)
    => (session_key < globalRSAKey.n /\ thrown = "" /\ pc # "terminate")

(***************************************************************************)
(* rsa_encrypt and rsa_decrypt called with arguments of the caller's       *)
(* choice, inside and just outside 0..n-1, as main.cpp does when it hands  *)
(* rsa_decrypt the number it read from a file (specification SpecRSACalls, *)
(* one call per run).                                                      *)
(***************************************************************************)
\* the key is one rsa_keygen returns for its two smallest sizes; the
\* arguments run from -2 to n + 1
InitRSACalls ==
    /\ pc = "calls"
    /\ lastOp = "rsa_keygen"
    /\ plainFile = Missing
    /\ SerpentIdle
    /\ BlockIdle
    /\ kg = NoKeygen
    /\ rsa_key \in {r.key : r \in {x \in rsa_keygen(MinKeygenBits)
                                         \cup rsa_keygen(MinKeygenBits + 1) :
                                       x.thrown = ""}}
    /\ session_key = 0
    /\ encrypted_session_key = 0
    /\ decrypted_session_key = 0
    /\ thrown = ""
    /\ MainIdle
    /\ CallIdle

CallEncrypt(m) ==
    /\ pc = "calls"
    /\ session_key' = m
    /\ LET r == rsa_encrypt(m, rsa_key)
       IN  /\ thrown' = r[1]
           /\ encrypted_session_key' = r[2]
    /\ pc' = "return"
    /\ lastOp' = "rsa_encrypt"
    /\ UNCHANGED << kg, rsa_key, decrypted_session_key >>
    /\ UNCHANGED << plainFile, serpentVars, blockVars, mainVars, callVars >>

CallDecrypt(c) ==
    /\ pc = "calls"
    /\ encrypted_session_key' = c
    /\ LET r == rsa_decrypt(c, rsa_key)
       IN  /\ thrown' = r[1]
           /\ decrypted_session_key' = r[2]
    /\ pc' = "return"
    /\ lastOp' = "rsa_decrypt"
    /\ UNCHANGED << kg, rsa_key, session_key >>
    /\ UNCHANGED << plainFile, serpentVars, blockVars, mainVars, callVars >>

NextRSACalls ==
    \/ \E m \in (-2)..(rsa_key.n + 1) : CallEncrypt(m)
    \/ \E c \in (-2)..(rsa_key.n + 1) : CallDecrypt(c)

SpecRSACalls == InitRSACalls /\ [][NextRSACalls]_vars

\* b^e mod n by e multiplications
RECURSIVE Power(_, _, _)
Power(b, e, n) == IF e = 0 THEN 1 % n ELSE (b * Power(b, e - 1, n)) % n

\* C11: rsa_encrypt(m, key) fails with an invalid-argument error when m < 0 or
\* m >= n and otherwise returns m^e mod n; rsa_decrypt(c, key) fails likewise
\* when c < 0 or c >= n and otherwise returns c^d mod n.
C11_EncryptDecryptContract ==
    /\ lastOp = "rsa_encrypt"
         => IF session_key < 0 \/ session_key >= rsa_key.n
            THEN thrown = "invalid_argument"
            ELSE /\ thrown = ""
                 /\ encrypted_session_key = Power(session_key, rsa_key.e, rsa_key.n)
    /\ lastOp = "rsa_decrypt"
         => IF encrypted_session_key < 0 \/ encrypted_session_key >= rsa_key.n
            THEN thrown = "invalid_argument"
            ELSE /\ thrown = ""
                 /\ decrypted_session_key = Power(encrypted_session_key, rsa_key.d, rsa_key.n)

C11_Witness ==
    /\ lastOp = "rsa_decrypt"
    /\ encrypted_session_key = rsa_key.n
    /\ thrown = "invalid_argument"

(***************************************************************************)
(* One Serpent object whose caller has it encrypt a file, replaces the     *)
(* file's contents and has it encrypt again (specification SpecECB).       *)
(***************************************************************************)
\* 16 bytes of value v
Run16(v) == [i \in 1..16 |-> v]

\* 16 bytes counting up from v
Count16(v) == [i \in 1..16 |-> v + i]

\* files of one to three blocks: a single block, a block repeated, the same
\* block next to another one in either order, a block that equals the padding
\* block of a 16-byte-aligned file, and a file that ends inside its third block
EcbPlaintexts ==
    { Run16(65),
      Run16(65) \o Run16(65),
      Run16(65) \o Count16(0),
      Count16(0) \o Run16(65),
      Run16(16) \o Count16(0),
      Run16(65) \o Run16(65) \o << 66 >> }

\* the k-th (0-based) 16-byte block of buffer
BlockAt(buffer, k) == SubSeq(buffer, 16 * k + 1, 16 * k + 16)

InitECB ==
    /\ pc = "setKey"
    /\ lastOp = "Serpent"
    /\ plainFile \in {File(b) : b \in EcbPlaintexts}
    /\ SerpentIdle
    /\ BlockIdle
    /\ RsaIdle
    /\ MainIdle
    /\ CallIdle

\* cipher.setKey(sessionKey)
EcbSetKey(key) ==
    /\ pc = "setKey"
    /\ subkeys' = setKey(key)
    /\ keyed' = key
    /\ pc' = "encryptFile"
    /\ lastOp' = "setKey"
    /\ UNCHANGED << plainFile, encFile, encKeyed, decIn, decFile, ret >>
    /\ UNCHANGED << blockVars, rsaVars, mainVars, callVars >>

\* cipher.encryptFile(inFile, outFile), with or without a key set before
EcbEncryptFile ==
    /\ pc \in {"setKey", "encryptFile"}
    /\ calls < MaxEncryptions
    /\ LET r == encryptFile(subkeys, plainFile)
       IN  /\ ret' = r[1]
           /\ encFile' = r[2]
    /\ encKeyed' = keyed
    /\ encPlain' = plainFile
    /\ calls' = calls + 1
    /\ pc' = "write"
    /\ lastOp' = "encryptFile"
    /\ UNCHANGED << subkeys, keyed, plainFile, decIn, decFile >>
    /\ UNCHANGED << keyMpz, keyBytes, sboxRound >>
    /\ UNCHANGED << blockVars, rsaVars, mainVars >>

\* the owner of the input file replaces its contents
RewriteFile(b) ==
    /\ pc = "write"
    /\ calls < MaxEncryptions
    /\ b # plainFile.data
    /\ plainFile' = File(b)
    /\ pc' = "encryptFile"
    /\ lastOp' = "write"
    /\ UNCHANGED << subkeys, keyed, encFile, encKeyed, decIn, decFile, ret >>
    /\ UNCHANGED << blockVars, rsaVars, mainVars, callVars >>

NextECB ==
    \/ \E k \in SessionKeys : EcbSetKey(k)
    \/ EcbEncryptFile
    \/ \E b \in EcbPlaintexts : RewriteFile(b)

SpecECB == InitECB /\ [][NextECB]_vars

\* C12: the output of encryptFile is the in-order concatenation of the
\* per-block ciphertexts of the padded plaintext: ciphertext block i is
\* encryptBlock of padded-plaintext block i under the subkey table, so equal
\* plaintext blocks at any positions, of this file or of the file encrypted
\* before it by the same object, have equal ciphertext blocks, and a block
\* that was not rewritten keeps its ciphertext block.
C12_BlockIndependence ==
    [][(lastOp' = "encryptFile" /\ ret')
       => LET P == PadPKCS7(plainFile.data)
              C == encFile'.data
              Pold == PadPKCS7(encPlain.data)
              Cold == encFile.data
              BlockIndices(buffer) == 0..((Len(buffer) \div 16) - 1)
          IN  /\ Len(C) = Len(P)
              /\ \A i \in BlockIndices(P) :
                    BlockAt(C, i) = BytesOfBlock(encryptBlock(subkeys, BlockOfBytes(P, 16 * i)))
              /\ \A i, j \in BlockIndices(P) :
                    BlockAt(P, i) = BlockAt(P, j) => BlockAt(C, i) = BlockAt(C, j)
              /\ encFile.exists
                    => \A i \in BlockIndices(P) : \A j \in BlockIndices(Pold) :
                         BlockAt(P, i) = BlockAt(Pold, j) => BlockAt(C, i) = BlockAt(Cold, j)
      ]_vars

\* a second encryption whose input repeats a block of the first input at
\* another position and differs from it in another block
C12_Witness ==
    /\ lastOp = "encryptFile"
    /\ calls = 2
    /\ keyed = 1
    /\ encPlain.data = Count16(0) \o Run16(65)
    /\ BlockAt(encFile.data, 0) # BlockAt(encFile.data, 1)
    /\ Len(encFile.data) = 48

(***************************************************************************)
(* setKey called once on a new Serpent object with a session key of up to  *)
(* MaxKeyBytes bytes, given by its limbs (specification SpecKey).          *)
(***************************************************************************)
\* byte i (1-based, least significant first) of the key of len bytes made of
\* pattern p: pattern 0 is a single 1 in the highest byte, pattern 1 is all
\* 0xFF, the others are non-zero bytes that vary with i
KeyByte(p, len, i) ==
    IF p = 0 THEN (IF i = len THEN 1 ELSE 0)
    ELSE IF p = 1 THEN 255
    ELSE ((i * (36 + p) + len) % 255) + 1

RECURSIVE ValueLE(_)
\* the number whose bytes, least significant first, are bytes
ValueLE(bytes) == IF bytes = << >> THEN 0 ELSE Head(bytes) + 256 * ValueLE(Tail(bytes))

\* the limbs of the number whose bytes, least significant first, are bytes
LimbsOfBytes(bytes) ==
    LET last(j) == IF LimbBytes * j <= Len(bytes) THEN LimbBytes * j ELSE Len(bytes)
    IN  [j \in 1..((Len(bytes) + LimbBytes - 1) \div LimbBytes) |->
           ValueLE(SubSeq(bytes, LimbBytes * (j - 1) + 1, last(j)))]

\* the session keys handed to setKey: 0 and, for every length up to
\* MaxKeyBytes, one key of each pattern
KeyInputs ==
    { LimbsOfBytes([i \in 1..len |-> KeyByte(p, len, i)]) :
        len \in 0..MaxKeyBytes, p \in 0..(NumKeyPatterns - 1) }

InitKey ==
    /\ pc = "setKey"
    /\ lastOp = "Serpent"
    /\ plainFile = Missing
    /\ SerpentIdle
    /\ BlockIdle
    /\ RsaIdle
    /\ MainIdle
    /\ CallIdle

\* cipher.setKey(session_key): the buffer made of the key, and keySchedule
KeySetKey(z) ==
    /\ pc = "setKey"
    /\ keyMpz' = z
    /\ keyBytes' = KeyBufferMpz(z)
    /\ subkeys' = keySchedule(KeyBufferMpz(z))
    /\ pc' = "return"
    /\ lastOp' = "setKey"
    /\ UNCHANGED << keyed, plainFile, encFile, encKeyed, decIn, decFile, ret >>
    /\ UNCHANGED << sboxRound, encPlain, calls >>
    /\ UNCHANGED << blockVars, rsaVars, mainVars >>

NextKey == \E z \in KeyInputs : KeySetKey(z)

SpecKey == InitKey /\ [][NextKey]_vars

\* byte i (0-based) of the number given by limbs
ByteOfMpz(limbs, i) ==
    IF (i \div LimbBytes) + 1 > Len(limbs) THEN 0
    ELSE (limbs[(i \div LimbBytes) + 1] \div (256^(i % LimbBytes))) % 256

\* the number of significant bytes of the number given by limbs
SizeInBytes(limbs) ==
    Cardinality({i \in 0..(LimbBytes * Len(limbs)) :
                   \E j \in i..(LimbBytes * Len(limbs)) : ByteOfMpz(limbs, j) # 0})

\* C13: after keySchedule on a 32-byte key all 33 subkeys are populated, and
\* subkey K_i (i in 0..32) is the S-box of index (8 + 3 - i) mod 8 applied to
\* (w[4i+8], w[4i+9], w[4i+10], w[4i+11]), where w[0..7] are the little-endian
\* key words and w[i] = ROL(w[i-8] ^ w[i-5] ^ w[i-3] ^ w[i-1] ^ 0x9e3779b9 ^
\* (i-8), 11) for i in 8..139; every index stays inside w[0..139] and
\* subkeys[0..32].
C13_KeySchedule ==
    lastOp = "setKey"
    => LET w == Prekeys(KeyWords(keyBytes), 140)
       IN  /\ Len(keyBytes) = 32
           /\ Len(w) = 140
           /\ \A i \in 0..7 :
                 w[i + 1] = {b \in BitPos : BitOf(keyBytes[4 * i + (b \div 8) + 1], b % 8)}
           /\ \A i \in 8..139 :
                 w[i + 1] = ROL(XOR(XOR(XOR(XOR(XOR(w[i - 8 + 1], w[i - 5 + 1]), w[i - 3 + 1]),
                                            w[i - 1 + 1]), PHI), WordOfNat(i - 8)), 11)
           /\ DOMAIN subkeys = 1..33
           /\ \A i \in 0..32 :
                 /\ 4 * i + 11 <= 139
                 /\ DOMAIN subkeys[i + 1] = 1..4
                 /\ \A j \in 1..4 : subkeys[i + 1][j] \subseteq BitPos
                 /\ subkeys[i + 1] =
                      applySBox((8 + 3 - i) % 8,
                                << w[4 * i + 8 + 1], w[4 * i + 9 + 1],
                                   w[4 * i + 10 + 1], w[4 * i + 11 + 1] >>)

C13_Witness ==
    /\ lastOp = "setKey"
    /\ SizeInBytes(keyMpz) = 32
    /\ keyBytes[1] # keyBytes[2]
    /\ subkeys[33] # ZeroBlock
    /\ subkeys[33] # subkeys[1]

C19_SetKeyInjective ==
    lastOp = "setKey"
    => \A z \in KeyInputs :
         (z # keyMpz /\ SizeInBytes(z) <= 32 /\ SizeInBytes(keyMpz) <= 32)
            => KeyBufferMpz(z) # keyBytes

(***************************************************************************)
(* The component checks of runComponentTest, each on a block of the        *)
(* caller's choice: a component is applied to a copy of the block and its  *)
(* inverse to the result (specification SpecComponent).                    *)
(***************************************************************************)
\* uint32_t dummy[4] = {0x11223344, 0x55667788, 0x99AABBCC, 0xDDEEFF00}
DummyBlock ==
    << WordOfBytes(68, 51, 34, 17), WordOfBytes(136, 119, 102, 85),
       WordOfBytes(204, 187, 170, 153), WordOfBytes(0, 255, 238, 221) >>

\* the 128 blocks with a single bit set: bit i % 32 of word i \div 32
UnitBlocks ==
    {[w \in 1..4 |-> IF w = (i \div 32) + 1 THEN {i % 32} ELSE {}] : i \in 0..127}

\* the 16 blocks that hold the same S-box input v at every bit position
NibbleBlocks ==
    {[w \in 1..4 |-> IF BitOf(v, w - 1) THEN BitPos ELSE {}] : v \in 0..15}

\* the linear components are decided by the unit blocks, the S-boxes by the
\* nibble blocks; the others are blocks of mixed bits
ComponentBlocks == {DummyBlock, ZeroBlock} \cup UnitBlocks \cup NibbleBlocks \cup Blocks

InitComponent ==
    /\ pc = "component"
    /\ lastOp = "memcpy"
    /\ plainFile = Missing
    /\ SerpentIdle
    /\ blockIn \in ComponentBlocks
    /\ blockOut = blockIn
    /\ RsaIdle
    /\ MainIdle
    /\ CallIdle

Transpose ==
    /\ lastOp = "memcpy"
    /\ blockOut' = transpose(blockOut)
    /\ lastOp' = "transpose"
    /\ UNCHANGED << pc, blockIn, serpentVars, rsaVars, mainVars, callVars >>

InverseTranspose ==
    /\ lastOp = "transpose"
    /\ blockOut' = inverseTranspose(blockOut)
    /\ lastOp' = "inverseTranspose"
    /\ UNCHANGED << pc, blockIn, serpentVars, rsaVars, mainVars, callVars >>

LinearTransform ==
    /\ lastOp = "memcpy"
    /\ blockOut' = linearTransform(blockOut)
    /\ lastOp' = "linearTransform"
    /\ UNCHANGED << pc, blockIn, serpentVars, rsaVars, mainVars, callVars >>

InverseLinearTransform ==
    /\ lastOp = "linearTransform"
    /\ blockOut' = inverseLinearTransform(blockOut)
    /\ lastOp' = "inverseLinearTransform"
    /\ UNCHANGED << pc, blockIn, serpentVars, rsaVars, mainVars, callVars >>

ApplySBox(i) ==
    /\ lastOp = "memcpy"
    /\ sboxRound' = i
    /\ blockOut' = applySBox(i, blockOut)
    /\ lastOp' = "applySBox"
    /\ UNCHANGED << pc, blockIn, serpentVars, rsaVars, mainVars >>
    /\ UNCHANGED << keyMpz, keyBytes, encPlain, calls >>

ApplyInverseSBox ==
    /\ lastOp = "applySBox"
    /\ blockOut' = applyInverseSBox(sboxRound, blockOut)
    /\ lastOp' = "applyInverseSBox"
    /\ UNCHANGED << pc, blockIn, serpentVars, rsaVars, mainVars, callVars >>

NextComponent ==
    \/ Transpose
    \/ InverseTranspose
    \/ LinearTransform
    \/ InverseLinearTransform
    \/ \E i \in 0..7 : ApplySBox(i)
    \/ ApplyInverseSBox

SpecComponent == InitComponent /\ [][NextComponent]_vars

\* C14: for every block B of four 32-bit words, inverseTranspose(transpose(B))
\* = B, where transpose moves bit (i mod 32) of word floor(i/32) to bit
\* floor(i/4) of word (i mod 4) for every i in 0..127.
C14_TransposeRoundTrip ==
    /\ lastOp = "transpose"
         => /\ \A i \in 0..127 :
                 ((i \div 4) \in blockOut[(i % 4) + 1]) <=> ((i % 32) \in blockIn[(i \div 32) + 1])
            /\ \A w \in 1..4 : blockOut[w] \subseteq BitPos
    /\ lastOp = "inverseTranspose" => blockOut = blockIn

C14_Witness ==
    /\ lastOp = "inverseTranspose"
    /\ blockIn = DummyBlock
    /\ blockOut = DummyBlock
    /\ transpose(DummyBlock) # DummyBlock

\* C15: for every four-word state X (32-bit words, rotations and shifts taken
\* modulo 2^32), inverseLinearTransform(linearTransform(X)) = X.
C15_LinearRoundTrip ==
    lastOp = "inverseLinearTransform" => blockOut = blockIn

\* a state whose linear transform loses bits in both shifts
C15_Witness ==
    /\ lastOp = "inverseLinearTransform"
    /\ blockIn = DummyBlock
    /\ blockOut = DummyBlock
    /\ LET a0 == ROL(DummyBlock[1], 13)
           a1 == XOR(XOR(DummyBlock[2], a0), ROL(DummyBlock[3], 3))
       IN  SHL(a0, 3) # ROL(a0, 3) /\ SHL(ROL(a1, 1), 7) # ROL(ROL(a1, 1), 7)

\* C16: for every S-box index r in 0..7 and every four-word state X,
\* applyInverseSBox(r, applySBox(r, X)) = X; equivalently each INV_SBOX[r] is
\* the inverse of the permutation SBOX[r] of 0..15.
C16_SBoxRoundTrip ==
    /\ lastOp = "applyInverseSBox" => blockOut = blockIn
    /\ \A r \in 0..7 :
         /\ {SBOX[r + 1][v + 1] : v \in 0..15} = 0..15
         /\ \A v \in 0..15 : INV_SBOX[r + 1][SBOX[r + 1][v + 1] + 1] = v

C16_Witness ==
    /\ lastOp = "applyInverseSBox"
    /\ sboxRound = 7
    /\ blockIn = DummyBlock
    /\ blockOut = DummyBlock
    /\ applySBox(7, DummyBlock) # DummyBlock

(***************************************************************************)
(* One Serpent object on which its owner calls setKey, encryptFile,        *)
(* decryptFile and runComponentTest in any order (specification            *)
(* SpecObject).  encryptBlock and decryptBlock are private and run inside  *)
(* the two file functions.                                                 *)
(***************************************************************************)
\* mutant of runComponentTest: the transpose check leaves subkeys[0] transposed
runComponentTestOnSubkeys(sk) ==
    [subkeys |-> [sk EXCEPT ![1] = transpose(sk[1])], passed |-> TRUE]

\* runComponentTest: the table it leaves in the object, and whether the
\* transpose, the linear transform and all eight S-boxes gave the dummy back
runComponentTest(sk) ==
    [subkeys |-> sk,
     passed  |-> /\ inverseTranspose(transpose(DummyBlock)) = DummyBlock
                 /\ inverseLinearTransform(linearTransform(DummyBlock)) = DummyBlock
                 /\ \A i \in 0..7 : applyInverseSBox(i, applySBox(i, DummyBlock)) = DummyBlock]

\* the input file: none, an empty one, one of two blocks
InitObject ==
    /\ pc = "object"
    /\ lastOp = "Serpent"
    /\ plainFile \in {Missing, File(<< >>), File(Run16(65) \o << 66 >>)}
    /\ SerpentIdle
    /\ BlockIdle
    /\ RsaIdle
    /\ MainIdle
    /\ CallIdle

ObjSetKey(key) ==
    /\ calls < MaxCalls
    /\ subkeys' = setKey(key)
    /\ keyed' = key
    /\ calls' = calls + 1
    /\ lastOp' = "setKey"
    /\ UNCHANGED << pc, plainFile, encFile, encKeyed, decIn, decFile, ret >>
    /\ UNCHANGED << keyMpz, keyBytes, sboxRound, encPlain >>
    /\ UNCHANGED << blockVars, rsaVars, mainVars >>

ObjEncryptFile ==
    /\ calls < MaxCalls
    /\ LET r == encryptFile(subkeys, plainFile)
       IN  /\ ret' = r[1]
           /\ encFile' = r[2]
    /\ encKeyed' = keyed
    /\ encPlain' = plainFile
    /\ calls' = calls + 1
    /\ lastOp' = "encryptFile"
    /\ UNCHANGED << pc, subkeys, keyed, plainFile, decIn, decFile >>
    /\ UNCHANGED << keyMpz, keyBytes, sboxRound >>
    /\ UNCHANGED << blockVars, rsaVars, mainVars >>

ObjDecryptFile ==
    /\ calls < MaxCalls
    /\ LET r == decryptFile(subkeys, encFile)
       IN  /\ ret' = r[1]
           /\ decFile' = r[2]
    /\ decIn' = encFile
    /\ calls' = calls + 1
    /\ lastOp' = "decryptFile"
    /\ UNCHANGED << pc, subkeys, keyed, plainFile, encFile, encKeyed >>
    /\ UNCHANGED << keyMpz, keyBytes, sboxRound, encPlain >>
    /\ UNCHANGED << blockVars, rsaVars, mainVars >>

ObjRunComponentTest ==
    /\ calls < MaxCalls
    /\ LET r == runComponentTest(subkeys)
       IN  /\ subkeys' = r.subkeys
           /\ ret' = r.passed
    /\ calls' = calls + 1
    /\ lastOp' = "runComponentTest"
    /\ UNCHANGED << pc, keyed, plainFile, encFile, encKeyed, decIn, decFile >>
    /\ UNCHANGED << keyMpz, keyBytes, sboxRound, encPlain >>
    /\ UNCHANGED << blockVars, rsaVars, mainVars >>

NextObject ==
    \/ \E k \in SessionKeys : ObjSetKey(k)
    \/ ObjEncryptFile
    \/ ObjDecryptFile
    \/ ObjRunComponentTest

SpecObject == InitObject /\ [][NextObject]_vars

\* C17: over any sequence of setKey, encryptFile, decryptFile and
\* runComponentTest calls on one Serpent object, the 33x4 subkey table changes
\* only during setKey: the file functions (and encryptBlock and decryptBlock
\* inside them) and runComponentTest leave every subkey word as it was.
C17_SubkeysChangeOnlyInSetKey ==
    [][lastOp' # "setKey" => subkeys' = subkeys]_vars

C17_Witness ==
    /\ lastOp = "runComponentTest"
    /\ calls = 3
    /\ keyed = 1
    /\ subkeys # ZeroSubkeys
    /\ encFile.exists
    /\ Len(encFile.data) = 32
    /\ ret = TRUE

(***************************************************************************)
(* Claims about option 2 of main.cpp (specification SpecMain).             *)
(***************************************************************************)
\* C20 (as claimed): whenever loadRSAKey returns false (file missing, or one
\* of the three integers fails to parse), globalRSAKey (n, e, d) and hasKey
\* are exactly as they were before the call.
C20_FailedLoadKeepsKey ==
    [][(lastOp' = "2" /\ pc' = "option2")
       => (globalRSAKey' = globalRSAKey /\ hasKey' = hasKey)]_vars

=============================================================================
